---------------------------- MODULE Spec2Model ----------------------------
(***************************************************************************)
(* Sink tokenizer (src/src/atom.rs, src/src/main.rs).                      *)
(*                                                                         *)
(* main() builds a Root Group and feeds it the characters of the input     *)
(* file one at a time; each read_char consumes the active atom and returns *)
(* the next active atom.  An atom is modelled as a record that owns its    *)
(* parent (Option<Box<Group>>) exactly as the Rust value does, so the      *)
(* whole token tree is the value of the variable state.                    *)
(*                                                                         *)
(* Characters are one-character strings.  An i64 is its two's complement   *)
(* pattern, a natural below 2^64; an f64 is a record of a sign, a 53-bit   *)
(* mantissa and a binary exponent.  Both are computed exactly, bit for     *)
(* bit, on naturals held as sequences of limbs.                            *)
(***************************************************************************)
EXTENDS Integers, Sequences, FiniteSets, TLC

VARIABLES
    state,            \* main.rs:17  the active atom (Box<dyn Atom>)
    input,            \* the characters of contents fed so far (history)
    overflow_checks   \* build profile: TRUE for rustc's debug default
                      \* (arithmetic overflow panics), FALSE for release
                      \* (arithmetic overflow wraps)

vars == <<state, input, overflow_checks>>

----------------------------------------------------------------------------
(* Character classes *)

\* char::is_ascii_alphabetic
AsciiAlphabetic ==
    {"a","b","c","d","e","f","g","h","i","j","k","l","m",
     "n","o","p","q","r","s","t","u","v","w","x","y","z",
     "A","B","C","D","E","F","G","H","I","J","K","L","M",
     "N","O","P","Q","R","S","T","U","V","W","X","Y","Z"}

\* char::is_ascii_digit
AsciiDigit == {"0","1","2","3","4","5","6","7","8","9"}

is_ascii_alphabetic(c) == c \in AsciiAlphabetic

is_ascii_digit(c) == c \in AsciiDigit

\* mutant: digits are not accepted
is_ascii_alphanumeric_letters_only(c) == c \in AsciiAlphabetic

\* mutant: the underscore counts as a letter
is_ascii_alphanumeric_or_underscore(c) ==
    c \in AsciiAlphabetic \cup AsciiDigit \cup {"_"}

is_ascii_alphanumeric(c) == c \in AsciiAlphabetic \cup AsciiDigit

\* the grave accent (U+0060), which a TLA+ string cannot hold
GraveAccent == "U+0060"

\* atom.rs:9   the 22 characters of OPERATOR_SYMBOL, in the source's order
OPERATOR_SYMBOL ==
    {"#","@","!","%","^","&","*","-","_","+",">","<","=","/","\\",
     "~",GraveAccent,",",".","|","?",":"}

\* atom.rs:10  ";"
FINAL_OPERATOR == {";"}

\* char::to_digit(10) on an ASCII digit
to_digit(c) ==
    CASE c = "0" -> 0 [] c = "1" -> 1 [] c = "2" -> 2 [] c = "3" -> 3
      [] c = "4" -> 4 [] c = "5" -> 5 [] c = "6" -> 6 [] c = "7" -> 7
      [] c = "8" -> 8 [] c = "9" -> 9

----------------------------------------------------------------------------
(* Natural numbers wider than TLC's 32-bit integers: sequences of limbs in *)
(* base 2^15, least significant limb first.                                *)

Base == 2^15

Zeros(n) == [i \in 1..n |-> 0]

\* the limbs of a small natural number, without leading zeros
RECURSIVE NatLimbs(_)
NatLimbs(n) == IF n = 0 THEN <<>> ELSE <<n % Base>> \o NatLimbs(n \div Base)

\* zero-extend or truncate to w limbs
Fit(x, w) ==
    IF Len(x) >= w THEN SubSeq(x, 1, w) ELSE x \o Zeros(w - Len(x))

\* drop the leading (most significant) zero limbs
Trim(x) ==
    LET nz == {i \in 1..Len(x) : x[i] # 0}
    IN  IF nz = {} THEN <<>>
        ELSE SubSeq(x, 1, CHOOSE i \in nz : \A j \in nz : j <= i)

RECURSIVE AddCarry(_, _, _)
AddCarry(x, y, carry) ==
    IF x = <<>> THEN <<carry>>
    ELSE LET s == Head(x) + Head(y) + carry
         IN  <<s % Base>> \o AddCarry(Tail(x), Tail(y), s \div Base)

\* x + y
AddNat(x, y) ==
    LET w == IF Len(x) > Len(y) THEN Len(x) ELSE Len(y)
    IN  Trim(AddCarry(Fit(x, w), Fit(y, w), 0))

RECURSIVE SubBorrow(_, _, _)
SubBorrow(x, y, borrow) ==
    IF x = <<>> THEN <<>>
    ELSE LET s == Head(x) - Head(y) - borrow
         IN  IF s < 0
             THEN <<s + Base>> \o SubBorrow(Tail(x), Tail(y), 1)
             ELSE <<s>> \o SubBorrow(Tail(x), Tail(y), 0)

\* x - y, for x >= y
SubNat(x, y) == Trim(SubBorrow(x, Fit(y, Len(x)), 0))

RECURSIVE MulCarry(_, _, _)
MulCarry(x, m, carry) ==
    IF x = <<>> THEN NatLimbs(carry)
    ELSE LET t == Head(x) * m + carry
         IN  <<t % Base>> \o MulCarry(Tail(x), m, t \div Base)

\* x * m, for 0 <= m < Base
MulSmall(x, m) == Trim(MulCarry(x, m, 0))

\* long division of x[1..i] by d, 0 < d < Base, most significant limb first
RECURSIVE DivStep(_, _, _, _, _)
DivStep(x, i, d, rem, q) ==
    IF i = 0 THEN [q |-> Trim(q), r |-> rem]
    ELSE LET t == rem * Base + x[i]
         IN  DivStep(x, i - 1, d, t % d, <<t \div d>> \o q)

\* quotient q and remainder r of x by d, 0 < d < Base
DivSmall(x, d) == DivStep(x, Len(x), d, 0, <<>>)

\* number of bits of an integer below Base
RECURSIVE IntBitLen(_)
IntBitLen(n) == IF n = 0 THEN 0 ELSE 1 + IntBitLen(n \div 2)

\* number of bits of x
BitLen(x) ==
    LET t == Trim(x)
    IN  IF t = <<>> THEN 0 ELSE 15 * (Len(t) - 1) + IntBitLen(t[Len(t)])

\* x * 2^k
ShiftLeft(x, k) ==
    IF Trim(x) = <<>> THEN <<>>
    ELSE Zeros(k \div 15) \o MulSmall(x, 2^(k % 15))

\* floor(x / 2^k), and whether a set bit was shifted out
ShiftRight(x, k) ==
    LET whole == k \div 15
        low   == SubSeq(x, 1, IF whole < Len(x) THEN whole ELSE Len(x))
        qr    == DivSmall(SubSeq(x, whole + 1, Len(x)), 2^(k % 15))
    IN  [q |-> qr.q, sticky |-> qr.r # 0 \/ Trim(low) # <<>>]

\* x < y
RECURSIVE LessMsb(_, _, _)
LessMsb(x, y, i) ==
    IF i = 0 THEN FALSE
    ELSE IF x[i] # y[i] THEN x[i] < y[i]
    ELSE LessMsb(x, y, i - 1)

LessNat(x, y) ==
    LET a == Trim(x)
        b == Trim(y)
    IN  IF Len(a) # Len(b) THEN Len(a) < Len(b) ELSE LessMsb(a, b, Len(a))

TruthLow(x) == IF x = <<>> THEN 0 ELSE x[1] % 2

----------------------------------------------------------------------------
(* i64: the two's complement pattern, a natural below 2^64 held in five    *)
(* limbs (the fifth holds the top four bits).                              *)

I64Bits == 64

I64Limbs == (I64Bits + 14) \div 15

TwoTo64 == <<0, 0, 0, 0, 16>>

\* reduce a natural modulo 2^64
Wrap64(x) ==
    LET f == Fit(x, I64Limbs) IN [f EXCEPT ![I64Limbs] = @ % 16]

\* the i64 of a small natural number
I64(n) == Fit(NatLimbs(n), I64Limbs)

\* the sign bit of an i64
IsNegative(v) == v[I64Limbs] >= 8

\* a natural is at most i64::MAX
FitsI64(x) == BitLen(x) < I64Bits

\* the magnitude of an i64
I64Magnitude(v) == IF IsNegative(v) THEN SubNat(TwoTo64, v) ELSE Trim(v)

----------------------------------------------------------------------------
(* f64: value = (-1)^neg * man * 2^exp, where man is zero (the empty       *)
(* sequence) or a natural of exactly F64MantissaBits bits.  Every value    *)
(* the tokenizer builds from a few dozen input characters is zero or       *)
(* normal, so subnormals, infinities and NaN are not represented.          *)

F64MantissaBits == 53

F64Zero == [neg |-> FALSE, man |-> <<>>, exp |-> 0]

\* Round to nearest, ties to even: the f64 nearest to (n + f) * 2^e, where
\* n is a natural, 0 <= f < 1 and f > 0 iff sticky.  With sticky set, n has
\* more than F64MantissaBits + 1 bits.
RoundToF64(neg, n, e, sticky) ==
    LET t == Trim(n)
        L == BitLen(t)
    IN  IF L = 0 THEN F64Zero
        ELSE IF L <= F64MantissaBits
        THEN [neg |-> neg,
              man |-> ShiftLeft(t, F64MantissaBits - L),
              exp |-> e - (F64MantissaBits - L)]
        ELSE LET drop  == L - F64MantissaBits
                 sr    == ShiftRight(t, drop - 1)
                 guard == TruthLow(sr.q)
                 kept  == DivSmall(sr.q, 2).q
                 rest  == sticky \/ sr.sticky
                 up    == guard = 1 /\ (rest \/ TruthLow(kept) = 1)
                 m     == IF up THEN AddNat(kept, <<1>>) ELSE kept
             IN  IF BitLen(m) > F64MantissaBits
                 THEN [neg |-> neg,
                       man |-> DivSmall(m, 2).q,
                       exp |-> e + drop + 1]
                 ELSE [neg |-> neg, man |-> m, exp |-> e + drop]

\* (v as f64) for an i64 v (atom.rs:277): rounds when |v| >= 2^53
I64AsF64(v) == RoundToF64(IsNegative(v), I64Magnitude(v), 0, FALSE)

\* (d as f64) for the u32 d that to_digit returns (atom.rs:285)
U32AsF64(d) == RoundToF64(FALSE, NatLimbs(d), 0, FALSE)

\* floor(x / 5^p), and whether any remainder was dropped
RECURSIVE DivPow5(_, _, _)
DivPow5(x, p, sticky) ==
    IF p = 0 THEN [q |-> x, sticky |-> sticky]
    ELSE LET qr == DivSmall(x, 5)
         IN  DivPow5(qr.q, p - 1, sticky \/ qr.r # 0)

\* x / 10.0f64.powi(p) for x >= 0 (atom.rs:285).  For 0 <= p <= 22 the
\* power 10^p is an f64, powi returns it exactly and the quotient is
\* x / 10^p correctly rounded; the model reads no fractional digit beyond
\* that.
F64DivPowi10(x, p) ==
    IF x.man = <<>> THEN F64Zero
    ELSE LET k  == 4 + 3 * p
             qs == DivPow5(ShiftLeft(x.man, k), p, FALSE)
         IN  RoundToF64(x.neg, qs.q, x.exp - k - p, qs.sticky)

\* x + y, correctly rounded (the exact sum is formed, then rounded once)
F64Add(x, y) ==
    IF x.man = <<>> THEN y
    ELSE IF y.man = <<>> THEN x
    ELSE LET e  == IF x.exp < y.exp THEN x.exp ELSE y.exp
             nx == ShiftLeft(x.man, x.exp - e)
             ny == ShiftLeft(y.man, y.exp - e)
         IN  IF x.neg = y.neg
             THEN RoundToF64(x.neg, AddNat(nx, ny), e, FALSE)
             ELSE IF LessNat(nx, ny)
             THEN RoundToF64(y.neg, SubNat(ny, nx), e, FALSE)
             ELSE RoundToF64(x.neg, SubNat(nx, ny), e, FALSE)

----------------------------------------------------------------------------
(* Atoms.  Every atom is a record with the fields of its Rust struct and a *)
(* type tag (the vtable of Box<dyn Atom>).  Two history fields are added:  *)
(* first, the 1-based index of the input character the atom started on,    *)
(* and last, the index of the character on which it was attached to its    *)
(* parent's children (0 while it is not attached).                         *)

\* Option::None
None == [type |-> "None"]

\* a panic aborts the process; the message is the one rustc's runtime prints
Panic(message) == [type |-> "Panic", message |-> message]

UnwrapNone == Panic("called Option::unwrap() on a None value")

\* Group::new
GroupNew(group_type, parent, n) ==
    [type |-> "Group", parent |-> parent, children |-> <<>>,
     group_type |-> group_type, first |-> n, last |-> 0]

\* Identifier::new
IdentifierNew(parent, n) ==
    [type |-> "Identifier", parent |-> parent, value |-> <<>>,
     first |-> n, last |-> 0]

\* StringLiteral::new
StringLiteralNew(parent, n) ==
    [type |-> "StringLiteral", parent |-> parent, value |-> <<>>,
     escaped |-> FALSE, first |-> n, last |-> 0]

\* IntegerLiteral::new
IntegerLiteralNew(parent, n) ==
    [type |-> "IntegerLiteral", parent |-> parent, value |-> I64(0),
     first |-> n, last |-> 0]

\* mutant: the fractional position starts at 0
NumericLiteralNewPositionZero(parent, inital_value, n) ==
    [type |-> "NumericLiteral", parent |-> parent,
     value |-> I64AsF64(inital_value), position |-> 0,
     first |-> n, last |-> 0]

\* NumericLiteral::new; the literal started where its integer part started
NumericLiteralNew(parent, inital_value, n) ==
    [type |-> "NumericLiteral", parent |-> parent,
     value |-> I64AsF64(inital_value), position |-> 1,
     first |-> n, last |-> 0]

\* Operator::new
OperatorNew(parent, n) ==
    [type |-> "Operator", parent |-> parent, value |-> <<>>,
     first |-> n, last |-> 0]

\* self after self.parent.take(), as it is moved into the child list while
\* character n is processed
Taken(self, n) == [self EXCEPT !.parent = None, !.last = n]

\* mutant: the child is inserted at the front of the child list
take_parent_and_add_child_front(parent, child) ==
    [parent EXCEPT !.children = <<child>> \o @]

\* mutant: the child is pushed twice
take_parent_and_add_child_twice(parent, child) ==
    [parent EXCEPT !.children = Append(Append(@, child), child)]

\* take_parent_and_add_child: push child onto the parent's child list and
\* return the parent
take_parent_and_add_child(parent, child) ==
    [parent EXCEPT !.children = Append(@, child)]

\* mutant: the closing brackets of Square and Curved swapped
ClosingBracketSwapped(group_type) ==
    CASE group_type = "Curly"  -> "}"
      [] group_type = "Square" -> ")"
      [] group_type = "Curved" -> "]"
      [] OTHER                 -> "none"

\* the closing bracket of a Group kind (Root has none)
ClosingBracket(group_type) ==
    CASE group_type = "Curly"  -> "}"
      [] group_type = "Square" -> "]"
      [] group_type = "Curved" -> ")"
      [] OTHER                 -> "none"

\* mutant: no escape is translated
EscapeUntranslated(c) == c

\* the escape table of StringLiteral::read_char
Escape(c) ==
    CASE c = "n"  -> "\n"
      [] c = "r"  -> "\r"
      [] c = "t"  -> "\t"
      [] c = "\\" -> "\\"
      [] c = "\"" -> "\""
      [] c = "'"  -> "'"
      [] OTHER    -> c

RECURSIVE GroupReadChar(_, _, _)
RECURSIVE GroupReadDefault(_, _, _)
RECURSIVE IdentifierReadChar(_, _, _)
RECURSIVE IntegerLiteralReadChar(_, _, _)
RECURSIVE NumericLiteralReadChar(_, _, _)
RECURSIVE OperatorReadChar(_, _, _)

\* mutant: a new Group is pushed onto its parent's children when it is opened
GroupReadDefaultEagerAttach(self, c, n) ==
    CASE c = "{"  ->
            GroupNew("Curly",
                take_parent_and_add_child(self, GroupNew("Curly", None, n)), n)
      [] c = "("  -> GroupNew("Curved", self, n)
      [] c = "["  -> GroupNew("Square", self, n)
      [] c = "\"" -> StringLiteralNew(self, n)
      [] OTHER ->
            IF is_ascii_alphabetic(c)
            THEN IdentifierReadChar(IdentifierNew(self, n), c, n)
            ELSE IF is_ascii_digit(c)
            THEN IntegerLiteralReadChar(IntegerLiteralNew(self, n), c, n)
            ELSE IF c \in OPERATOR_SYMBOL \/ c \in FINAL_OPERATOR
            THEN OperatorReadChar(OperatorNew(self, n), c, n)
            ELSE self

\* Group::read_default
GroupReadDefault(self, c, n) ==
    CASE c = "{"  -> GroupNew("Curly", self, n)
      [] c = "("  -> GroupNew("Curved", self, n)
      [] c = "["  -> GroupNew("Square", self, n)
      [] c = "\"" -> StringLiteralNew(self, n)
      [] OTHER ->
            IF is_ascii_alphabetic(c)
            THEN IdentifierReadChar(IdentifierNew(self, n), c, n)
            ELSE IF is_ascii_digit(c)
            THEN IntegerLiteralReadChar(IntegerLiteralNew(self, n), c, n)
            ELSE IF c \in OPERATOR_SYMBOL \/ c \in FINAL_OPERATOR
            THEN OperatorReadChar(OperatorNew(self, n), c, n)
            ELSE self

\* mutant: any closing bracket closes a non-Root Group
GroupReadCharAnyCloser(self, c, n) ==
    IF self.group_type = "Root"
    THEN GroupReadDefault(self, c, n)
    ELSE IF c \in {"}", "]", ")"}
    THEN IF self.parent.type = "None" THEN UnwrapNone
         ELSE take_parent_and_add_child(self.parent, Taken(self, n))
    ELSE GroupReadDefault(self, c, n)

\* <Group as Atom>::read_char
GroupReadChar(self, c, n) ==
    IF self.group_type = "Root"
    THEN GroupReadDefault(self, c, n)
    ELSE IF c = ClosingBracket(self.group_type)
    THEN IF self.parent.type = "None" THEN UnwrapNone
         ELSE take_parent_and_add_child(self.parent, Taken(self, n))
    ELSE GroupReadDefault(self, c, n)

\* mutant: the terminator is redispatched to the parent's default dispatch
\* instead of its read_char
IdentifierReadCharDefaultDispatch(self, c, n) ==
    IF is_ascii_alphanumeric(c)
    THEN [self EXCEPT !.value = Append(@, c)]
    ELSE IF self.parent.type = "None" THEN UnwrapNone
    ELSE GroupReadDefault(
             take_parent_and_add_child(self.parent, Taken(self, n)), c, n)

\* <Identifier as Atom>::read_char
IdentifierReadChar(self, c, n) ==
    IF is_ascii_alphanumeric(c)
    THEN [self EXCEPT !.value = Append(@, c)]
    ELSE IF self.parent.type = "None" THEN UnwrapNone
    ELSE GroupReadChar(
             take_parent_and_add_child(self.parent, Taken(self, n)), c, n)

\* mutant: the closing quote is redispatched to the parent
StringLiteralReadCharRedispatchQuote(self, c, n) ==
    IF self.escaped
    THEN [self EXCEPT !.value = Append(@, Escape(c)), !.escaped = FALSE]
    ELSE CASE c = "\\" -> [self EXCEPT !.escaped = TRUE]
           [] c = "\"" ->
                IF self.parent.type = "None" THEN UnwrapNone
                ELSE GroupReadChar(
                         take_parent_and_add_child(self.parent, Taken(self, n)),
                         c, n)
           [] OTHER    -> [self EXCEPT !.value = Append(@, c)]

\* <StringLiteral as Atom>::read_char
StringLiteralReadChar(self, c, n) ==
    IF self.escaped
    THEN [self EXCEPT !.value = Append(@, Escape(c)), !.escaped = FALSE]
    ELSE CASE c = "\\" -> [self EXCEPT !.escaped = TRUE]
           [] c = "\"" ->
                IF self.parent.type = "None" THEN UnwrapNone
                ELSE take_parent_and_add_child(self.parent, Taken(self, n))
           [] OTHER    -> [self EXCEPT !.value = Append(@, c)]

\* mutant: a point is not special to an IntegerLiteral
IntegerLiteralReadCharNoPromotion(self, c, n) ==
    IF is_ascii_digit(c)
    THEN LET product == MulSmall(self.value, 10)
             sum     == AddNat(product, NatLimbs(to_digit(c)))
         IN  IF overflow_checks /\ ~FitsI64(product)
             THEN Panic("attempt to multiply with overflow")
             ELSE IF overflow_checks /\ ~FitsI64(sum)
             THEN Panic("attempt to add with overflow")
             ELSE [self EXCEPT !.value = Wrap64(sum)]
    ELSE IF self.parent.type = "None" THEN UnwrapNone
    ELSE GroupReadChar(
             take_parent_and_add_child(self.parent, Taken(self, n)), c, n)

\* <IntegerLiteral as Atom>::read_char.  value * 10 + digit is checked
\* arithmetic when the build has overflow checks and wraps otherwise; with
\* the checks on, value is never negative when the product is formed.
IntegerLiteralReadChar(self, c, n) ==
    IF is_ascii_digit(c)
    THEN LET product == MulSmall(self.value, 10)
             sum     == AddNat(product, NatLimbs(to_digit(c)))
         IN  IF overflow_checks /\ ~FitsI64(product)
             THEN Panic("attempt to multiply with overflow")
             ELSE IF overflow_checks /\ ~FitsI64(sum)
             THEN Panic("attempt to add with overflow")
             ELSE [self EXCEPT !.value = Wrap64(sum)]
    ELSE IF c = "."
    THEN IF self.parent.type = "None" THEN UnwrapNone
         ELSE NumericLiteralNew(self.parent, self.value, self.first)
    ELSE IF self.parent.type = "None" THEN UnwrapNone
    ELSE GroupReadChar(
             take_parent_and_add_child(self.parent, Taken(self, n)), c, n)

\* mutant: a point that ends the fraction is consumed with the number
NumericLiteralReadCharDropPoint(self, c, n) ==
    IF is_ascii_digit(c)
    THEN [self EXCEPT
            !.value = F64Add(@, F64DivPowi10(U32AsF64(to_digit(c)),
                                             self.position)),
            !.position = @ + 1]
    ELSE IF self.parent.type = "None" THEN UnwrapNone
    ELSE IF c = "."
    THEN take_parent_and_add_child(self.parent, Taken(self, n))
    ELSE GroupReadChar(
             take_parent_and_add_child(self.parent, Taken(self, n)), c, n)

\* <NumericLiteral as Atom>::read_char
NumericLiteralReadChar(self, c, n) ==
    IF is_ascii_digit(c)
    THEN [self EXCEPT
            !.value = F64Add(@, F64DivPowi10(U32AsF64(to_digit(c)),
                                             self.position)),
            !.position = @ + 1]
    ELSE IF self.parent.type = "None" THEN UnwrapNone
    ELSE GroupReadChar(
             take_parent_and_add_child(self.parent, Taken(self, n)), c, n)

\* mutant: the terminal operator character is not pushed onto the value
OperatorReadCharNoPush(self, c, n) ==
    IF c \in OPERATOR_SYMBOL
    THEN [self EXCEPT !.value = Append(@, c)]
    ELSE IF c \in FINAL_OPERATOR
    THEN IF self.parent.type = "None" THEN UnwrapNone
         ELSE take_parent_and_add_child(self.parent, Taken(self, n))
    ELSE IF self.parent.type = "None" THEN UnwrapNone
    ELSE GroupReadChar(
             take_parent_and_add_child(self.parent, Taken(self, n)), c, n)

\* <Operator as Atom>::read_char
OperatorReadChar(self, c, n) ==
    IF c \in OPERATOR_SYMBOL
    THEN [self EXCEPT !.value = Append(@, c)]
    ELSE IF c \in FINAL_OPERATOR
    THEN IF self.parent.type = "None" THEN UnwrapNone
         ELSE take_parent_and_add_child(
                  self.parent, Taken([self EXCEPT !.value = Append(@, c)], n))
    ELSE IF self.parent.type = "None" THEN UnwrapNone
    ELSE GroupReadChar(
             take_parent_and_add_child(self.parent, Taken(self, n)), c, n)

\* Atom::read_char through Box<dyn Atom>: dispatch on the dynamic type
ReadChar(atom, c, n) ==
    CASE atom.type = "Group"          -> GroupReadChar(atom, c, n)
      [] atom.type = "Identifier"     -> IdentifierReadChar(atom, c, n)
      [] atom.type = "StringLiteral"  -> StringLiteralReadChar(atom, c, n)
      [] atom.type = "IntegerLiteral" -> IntegerLiteralReadChar(atom, c, n)
      [] atom.type = "NumericLiteral" -> NumericLiteralReadChar(atom, c, n)
      [] atom.type = "Operator"       -> OperatorReadChar(atom, c, n)

----------------------------------------------------------------------------
(* The inputs explored: every text over GeneralChars of at most MaxLen     *)
(* characters, every bracket text of at most MaxBrackets, every numeric    *)
(* text of at most MaxNumber, every quoted text of at most MaxString,      *)
(* every run of nines of at most MaxDigits, and a set of example texts,     *)
(* each read one character at a time.                                      *)

MaxLen == 4

MaxBrackets == 6

MaxNumber == 6

MaxString == 5

MaxDigits == 20

GeneralChars ==
    {"{", "}", "(", "]", "\"", "\\", "a", "1", ".", "+", ";", " "}

BracketChars == {"{", "}", "(", ")", "[", "]"}

NumberChars == {"1", "5", ".", " "}

StringChars == {"\"", "\\", "n", "r", "t", "'", "q"}

DigitRunChars == {"9"}

Examples ==
    { <<"a", "b", "1", " ", "c", "d", " ">>,
      <<"1", "2", "3", ".", "4", "5", " ">>,
      <<"\"", "a", "\\", "n", "b", "\"">>,
      <<"\"", "a", "\\", "\"", "b", "\"">>,
      <<"+", "-", ";">>,
      <<"{", "]", "}">>,
      <<"{", "a", "b", "}">>,
      <<"1", ".", "2", ".", "3", " ">>,
      <<"\"", "{", "(", "[", "a", "1", "+", ";", " ", ")", "]", "}", "\"">>,
      <<"a", "_", "b", "2", "_", " ">>,
      <<"[", "1", ".", "5", "]">>,
      <<"(", "+", ")">>,
      <<"{", "(", "1", "2", ")", "}">>,
      [i \in 1..MaxDigits |-> IF i < MaxDigits THEN "9" ELSE " "] }

Chars ==
    GeneralChars \cup BracketChars \cup NumberChars \cup StringChars
    \cup DigitRunChars
    \cup UNION {{t[i] : i \in 1..Len(t)} : t \in Examples}

Over(s, alphabet) == \A i \in 1..Len(s) : s[i] \in alphabet

IsPrefix(s, t) == Len(s) <= Len(t) /\ s = SubSeq(t, 1, Len(s))

Explored(s) ==
    \/ Len(s) <= MaxLen /\ Over(s, GeneralChars)
    \/ Len(s) <= MaxBrackets /\ Over(s, BracketChars)
    \/ Len(s) <= MaxNumber /\ Over(s, NumberChars)
    \/ Len(s) <= MaxString /\ Over(s, StringChars)
    \/ Len(s) <= MaxDigits /\ Over(s, DigitRunChars)
    \/ \E t \in Examples : IsPrefix(s, t)

----------------------------------------------------------------------------
(* main *)

\* main.rs:17  a fresh Root; the build profile is either one
Init ==
    /\ state = GroupNew("Root", None, 0)
    /\ input = <<>>
    /\ overflow_checks \in BOOLEAN

\* main.rs:18-20  one iteration of the loop: state = state.read_char(c).
\* A panic ends the process.
Feed(c) ==
    /\ state.type # "Panic"
    /\ Explored(Append(input, c))
    /\ state' = ReadChar(state, c, Len(input) + 1)
    /\ input' = Append(input, c)
    /\ UNCHANGED overflow_checks

\* the characters c for which Append(s, c) is explored, for an explored s
Continues(s) ==
    (IF Len(s) < MaxLen /\ Over(s, GeneralChars) THEN GeneralChars ELSE {})
    \cup (IF Len(s) < MaxBrackets /\ Over(s, BracketChars)
          THEN BracketChars ELSE {})
    \cup (IF Len(s) < MaxNumber /\ Over(s, NumberChars)
          THEN NumberChars ELSE {})
    \cup (IF Len(s) < MaxString /\ Over(s, StringChars)
          THEN StringChars ELSE {})
    \cup (IF Len(s) < MaxDigits /\ Over(s, DigitRunChars)
          THEN DigitRunChars ELSE {})
    \cup {t[Len(s) + 1] : t \in {u \in Examples : Len(u) > Len(s)
                                                  /\ IsPrefix(s, u)}}

Next == \E c \in Continues(input) : Feed(c)

Spec == Init /\ [][Next]_vars

----------------------------------------------------------------------------
(* Views of the tree used by the properties *)

\* the active atom and its owned parents, up to the Root
RECURSIVE Chain(_)
Chain(atom) ==
    IF atom.type \in {"None", "Panic"} THEN <<>>
    ELSE <<atom>> \o Chain(atom.parent)

\* every atom in the given child sequence and below it, in rendering order
RECURSIVE Under(_)
Under(children) ==
    IF children = <<>> THEN <<>>
    ELSE LET h == Head(children)
         IN  <<h>> \o (IF h.type = "Group" THEN Under(h.children) ELSE <<>>)
                   \o Under(Tail(children))

RECURSIVE UnderAll(_)
UnderAll(chain) ==
    IF chain = <<>> THEN <<>>
    ELSE (IF Head(chain).type = "Group"
          THEN Under(Head(chain).children) ELSE <<>>) \o UnderAll(Tail(chain))

\* every atom attached to some child sequence
Attached(atom) == UnderAll(Chain(atom))

\* every atom of the tree: the active chain and everything attached
Atoms(atom) == Chain(atom) \o Attached(atom)

\* the Root the active atom hangs from
RootOf(atom) == LET ch == Chain(atom) IN ch[Len(ch)]

Running == state.type # "Panic"

IsRoot(atom) ==
    /\ atom.type = "Group"
    /\ atom.group_type = "Root"
    /\ atom.parent = None

FreshRoot == GroupNew("Root", None, 0)

Openers == {"{", "(", "["}

Closers == {"}", ")", "]"}

----------------------------------------------------------------------------
(* C1  Bracket nesting *)

\* openers minus closers among the first k characters of s
Depth(s, k) ==
    Cardinality({j \in 1..k : s[j] \in Openers})
    - Cardinality({j \in 1..k : s[j] \in Closers})

\* the position of the closer that matches the opener at position i
Match(s, i) ==
    CHOOSE k \in (i + 1)..Len(s) :
        /\ Depth(s, k) = Depth(s, i - 1)
        /\ \A j \in i..(k - 1) : Depth(s, j) > Depth(s, i - 1)

CloserOf(c) == CASE c = "{" -> "}" [] c = "(" -> ")" [] c = "[" -> "]"

KindOf(c) ==
    CASE c = "{" -> "Curly" [] c = "(" -> "Curved" [] c = "[" -> "Square"

\* s is made only of properly balanced brackets
Balanced(s) ==
    /\ Over(s, BracketChars)
    /\ \A k \in 1..Len(s) : Depth(s, k) >= 0
    /\ Depth(s, Len(s)) = 0
    /\ \A i \in 1..Len(s) :
          s[i] \in Openers => s[Match(s, i)] = CloserOf(s[i])

\* the Groups the bracket structure of s[lo..hi] describes, in order
RECURSIVE BracketTree(_, _, _)
BracketTree(s, lo, hi) ==
    IF lo > hi THEN <<>>
    ELSE LET m == Match(s, lo)
         IN  <<[type |-> "Group", parent |-> None,
                children |-> BracketTree(s, lo + 1, m - 1),
                group_type |-> KindOf(s[lo]), first |-> lo, last |-> m]>>
             \o BracketTree(s, m + 1, hi)

\* C1: after a balanced bracket text the active atom is the Root again and
\* the attached Groups have exactly the nesting, grouping, sibling order and
\* kinds of the bracket structure.
C1_BracketNesting ==
    Balanced(input) =>
        /\ IsRoot(state)
        /\ state.children = BracketTree(input, 1, Len(input))

C1_Witness ==
    /\ input = <<"{", "(", ")", "[", "]", "}">>
    /\ IsRoot(state)
    /\ Len(state.children) = 1
    /\ state.children[1].group_type = "Curly"
    /\ Len(state.children[1].children) = 2
    /\ state.children[1].children[1].group_type = "Curved"
    /\ state.children[1].children[2].group_type = "Square"

----------------------------------------------------------------------------
(* C2  Child sequences are append-only *)

\* atom x was on the active chain of the given atom (same type and start)
OnChain(x, atom) ==
    LET ch == Chain(atom)
    IN  \E i \in 1..Len(ch) : ch[i].type = x.type /\ ch[i].first = x.first

\* Group g of the state before a step, against the tree after the step:
\* the same Group is still there, its old children are a prefix of its new
\* ones, and every added child was finalized by this step's character
\* (parent taken, attached now) and was active, owned by the active atom,
\* or created by this very character.
GrowsOnly(g, before, after, n) ==
    \E j \in 1..Len(after) :
        /\ after[j].type = "Group"
        /\ after[j].first = g.first
        /\ IsPrefix(g.children, after[j].children)
        /\ \A k \in (Len(g.children) + 1)..Len(after[j].children) :
              LET child == after[j].children[k]
              IN  /\ child.parent = None
                  /\ child.last = n
                  /\ OnChain(child, before) \/ child.first = n

\* C2: across every read_char step that returns, each Group's child
\* sequence before the step is a prefix of its child sequence after it, and
\* each added child was added by finalize-and-attach in that step.
C2_AppendOnly ==
    [][state'.type # "Panic" =>
          LET before == Atoms(state)
          IN  \A i \in 1..Len(before) :
                 before[i].type = "Group" =>
                     GrowsOnly(before[i], state, Atoms(state'), Len(input'))
      ]_vars

\* a Group that has been appended to twice, below an appended Group
C2_Witness ==
    /\ Running
    /\ \E i \in 1..Len(Attached(state)) :
          LET g == Attached(state)[i]
          IN  g.type = "Group" /\ Len(g.children) >= 2

----------------------------------------------------------------------------
(* C3  Child order preservation *)

\* the character that finalized atom x was consumed by x itself (a closing
\* bracket, a closing quote, the terminal operator) and not redispatched
ConsumedLast(x) ==
    \/ x.type \in {"Group", "StringLiteral"}
    \/ x.type = "Operator" /\ input[x.last] \in FINAL_OPERATOR

\* the history fields of an attached atom are positions of the input, and
\* the atom's text is the input read from its first position on
Grounded(x) ==
    /\ 1 <= x.first /\ x.first <= x.last /\ x.last <= Len(input)
    /\ x.type \in {"Identifier", "Operator"} =>
          /\ Len(x.value) >= 1
          /\ x.value = SubSeq(input, x.first, x.first + Len(x.value) - 1)
          /\ x.first + Len(x.value) - 1 <= x.last
    /\ x.type = "Group" =>
          /\ input[x.first] \in Openers
          /\ input[x.last] = CloserOf(input[x.first])

\* the original statement: every character of an earlier child, its
\* finalizing character included, was read before the next child started
C3_Original ==
    Running =>
        \A g \in 1..Len(Atoms(state)) :
            LET grp == Atoms(state)[g]
            IN  grp.type = "Group" =>
                    \A i, j \in 1..Len(grp.children) :
                        i < j => grp.children[i].last < grp.children[j].first

\* C3 (amended): for children A before B of a Group, A started before B,
\* every character A consumed was read before B's starting character, and
\* the character that finalized A was read no later than B's starting
\* character: a terminator that A redispatches may itself start B.
C3_ChildOrder ==
    Running =>
        \A g \in 1..Len(Atoms(state)) :
            LET grp == Atoms(state)[g]
            IN  grp.type = "Group" =>
                    /\ \A i \in 1..Len(grp.children) :
                          Grounded(grp.children[i])
                    /\ \A i, j \in 1..Len(grp.children) :
                          i < j =>
                            LET a == grp.children[i]
                                b == grp.children[j]
                            IN  /\ a.first < b.first
                                /\ a.last <= b.first
                                /\ ConsumedLast(a) => a.last < b.first

\* Identifier a, finalized by the + that starts the Operator after it
C3_Witness ==
    /\ input = <<"a", "+", ";">>
    /\ IsRoot(state)
    /\ Len(state.children) = 2
    /\ state.children[1].type = "Identifier"
    /\ state.children[2].type = "Operator"
    /\ state.children[1].last = state.children[2].first

----------------------------------------------------------------------------
(* C4  Identifier boundary *)

\* an attached Identifier
AttachedIdentifier(value, first, last) ==
    [type |-> "Identifier", parent |-> None, value |-> value,
     first |-> first, last |-> last]

Text_ab1_cd == <<"a", "b", "1", " ", "c", "d">>

\* the original statement: after ab1 cd the Root's child sequence holds the
\* two Identifiers ab1 and cd
C4_Original ==
    input = Text_ab1_cd =>
        LET kids == RootOf(state).children
        IN  /\ Len(kids) = 2
            /\ kids[1].type = "Identifier" /\ kids[1].value = <<"a", "b", "1">>
            /\ kids[2].type = "Identifier" /\ kids[2].value = <<"c", "d">>

\* C4 (amended): after ab1 cd the Root's child sequence holds Identifier ab1
\* alone, the whitespace is dropped, and Identifier cd is the active atom,
\* owning the Root and not attached; cd becomes the second sibling when a
\* following non-alphanumeric character is read.
C4_IdentifierBoundary ==
    /\ input = Text_ab1_cd =>
          state = [type |-> "Identifier", value |-> <<"c", "d">>,
                   first |-> 5, last |-> 0,
                   parent |-> [FreshRoot EXCEPT !.children =
                       <<AttachedIdentifier(<<"a", "b", "1">>, 1, 4)>>]]
    /\ input = Text_ab1_cd \o <<" ">> =>
          state = [FreshRoot EXCEPT !.children =
                       <<AttachedIdentifier(<<"a", "b", "1">>, 1, 4),
                         AttachedIdentifier(<<"c", "d">>, 5, 7)>>]

C4_Witness ==
    /\ input = Text_ab1_cd \o <<" ">>
    /\ IsRoot(state)
    /\ Len(state.children) = 2
    /\ state.children[2].value = <<"c", "d">>

----------------------------------------------------------------------------
(* C5  Integer-then-float promotion *)

\* the last position of the run of digits that starts at position i of s
RECURSIVE RunEnd(_, _)
RunEnd(s, i) ==
    IF i <= Len(s) /\ s[i] \in AsciiDigit THEN RunEnd(s, i + 1) ELSE i - 1

\* the i64 that the digits s[lo..hi] denote, reduced modulo 2^64
RECURSIVE IntegerPart(_, _, _)
IntegerPart(s, lo, hi) ==
    IF lo > hi THEN I64(0)
    ELSE Wrap64(AddNat(MulSmall(IntegerPart(s, lo, hi - 1), 10),
                       NatLimbs(to_digit(s[hi]))))

\* base + sum of digit_i / 10^i over the fractional digits s[lo..hi], the
\* terms added in reading order in double precision
RECURSIVE FractionSum(_, _, _, _)
FractionSum(s, lo, hi, base) ==
    IF lo > hi THEN base
    ELSE F64Add(FractionSum(s, lo, hi - 1, base),
                F64DivPowi10(U32AsF64(to_digit(s[hi])), hi - lo + 1))

\* the f64 nearest to m / 10^k, for a natural m
DecimalF64(m, k) ==
    LET qs == DivPow5(ShiftLeft(m, 64 + 3 * k), k, FALSE)
    IN  RoundToF64(FALSE, qs.q, 0 - 64 - 3 * k - k, qs.sticky)

\* NumericLiteral x read the text input[x.first..hi]: a digit run, a point
\* and a digit run; its value is the integer part plus the fraction sum;
\* and no other atom of the tree started on any of those characters.
PromotedFrom(x, hi) ==
    LET e == RunEnd(input, x.first)
    IN  /\ x.first >= 1 /\ e >= x.first /\ e < hi
        /\ input[e + 1] = "."
        /\ Over(SubSeq(input, e + 2, hi), AsciiDigit)
        /\ x.value = FractionSum(input, e + 2, hi,
                                 I64AsF64(IntegerPart(input, x.first, e)))
        /\ x.position = hi - e
        /\ \A k \in 1..Len(Atoms(state)) :
              LET y == Atoms(state)[k]
              IN  y.first >= x.first /\ y.first <= hi => y = x

Text_123_45 == <<"1", "2", "3", ".", "4", "5">>

\* C5: a digit run, a point and a digit run yield one NumericLiteral whose
\* value is the integer part plus the sum of digit_i / 10^i (for 123.45 the
\* f64 123.45); the IntegerLiteral is never attached, the point starts no
\* Operator and the fractional digits start no IntegerLiteral.
C5_FloatPromotion ==
    Running =>
        /\ state.type = "NumericLiteral" => PromotedFrom(state, Len(input))
        /\ \A k \in 1..Len(Attached(state)) :
              LET x == Attached(state)[k]
              IN  x.type = "NumericLiteral" => PromotedFrom(x, x.last - 1)
        /\ input = Text_123_45 =>
              state = [type |-> "NumericLiteral", parent |-> FreshRoot,
                       value |-> DecimalF64(NatLimbs(12345), 2),
                       position |-> 3, first |-> 1, last |-> 0]
        /\ input = Text_123_45 \o <<" ">> =>
              state = [FreshRoot EXCEPT !.children =
                         <<[type |-> "NumericLiteral", parent |-> None,
                            value |-> DecimalF64(NatLimbs(12345), 2),
                            position |-> 3, first |-> 1, last |-> 7]>>]

C5_Witness ==
    /\ input = Text_123_45 \o <<" ">>
    /\ IsRoot(state)
    /\ Len(state.children) = 1
    /\ state.children[1].type = "NumericLiteral"
    /\ state.children[1].value = DecimalF64(NatLimbs(12345), 2)

----------------------------------------------------------------------------
(* C6  String escapes *)

\* the character read by the step
StepChar == input'[Len(input')]

\* n to newline, r to carriage return, t to tab, anything else to itself
EscapeTable(c) ==
    IF c = "n" THEN "\n"
    ELSE IF c = "r" THEN "\r"
    ELSE IF c = "t" THEN "\t"
    ELSE c

AttachedString(value, first, last) ==
    [type |-> "StringLiteral", parent |-> None, value |-> value,
     escaped |-> FALSE, first |-> first, last |-> last]

Text_a_bs_n_b == <<"\"", "a", "\\", "n", "b", "\"">>

Text_a_bs_quote_b == <<"\"", "a", "\\", "\"", "b", "\"">>

\* C6: an active, unescaped StringLiteral that reads a backslash sets the
\* flag and appends nothing; an escaped one appends the mapped character,
\* clears the flag and stays active (so an escaped double quote does not
\* close it); the quoted text a \ n b yields the value a, newline, b.
C6_StringEscapes ==
    [][state.type = "StringLiteral" =>
          /\ (~state.escaped /\ StepChar = "\\") =>
                state' = [state EXCEPT !.escaped = TRUE]
          /\ state.escaped =>
                state' = [state EXCEPT !.value = Append(@, EscapeTable(StepChar)),
                                       !.escaped = FALSE]
          /\ input' = Text_a_bs_n_b =>
                state' = [FreshRoot EXCEPT !.children =
                            <<AttachedString(<<"a", "\n", "b">>, 1, 6)>>]
          /\ input' = Text_a_bs_quote_b =>
                state' = [FreshRoot EXCEPT !.children =
                            <<AttachedString(<<"a", "\"", "b">>, 1, 6)>>]
      ]_vars

C6_Witness ==
    /\ input = Text_a_bs_n_b
    /\ IsRoot(state)
    /\ Len(state.children) = 1
    /\ state.children[1].type = "StringLiteral"
    /\ state.children[1].value = <<"a", "\n", "b">>

----------------------------------------------------------------------------
(* C7  Operator terminal *)

AttachedOperator(value, first, last) ==
    [type |-> "Operator", parent |-> None, value |-> value,
     first |-> first, last |-> last]

\* C7: an active Operator that reads ; appends it and is attached to its
\* parent in the same step, and the parent is active next without having
\* been fed the ; so +-; yields the single Operator +-; and a ; read by a
\* Group yields the single Operator ;
C7_OperatorTerminal ==
    [][/\ (state.type = "Operator" /\ StepChar = ";") =>
              state' = [state.parent EXCEPT !.children =
                          Append(@, AttachedOperator(Append(state.value, ";"),
                                                     state.first, Len(input')))]
       /\ (state.type = "Group" /\ StepChar = ";") =>
              state' = [state EXCEPT !.children =
                          Append(@, AttachedOperator(<<";">>, Len(input'),
                                                     Len(input')))]
       /\ input' = <<"+", "-", ";">> =>
              state' = [FreshRoot EXCEPT !.children =
                          <<AttachedOperator(<<"+", "-", ";">>, 1, 3)>>]
      ]_vars

C7_Witness ==
    /\ input = <<"+", "-", ";">>
    /\ IsRoot(state)
    /\ Len(state.children) = 1
    /\ state.children[1].type = "Operator"
    /\ state.children[1].value = <<"+", "-", ";">>

----------------------------------------------------------------------------
(* C8  Ignored characters *)

\* a character that default dispatch starts an atom on
Starts(c) ==
    \/ c \in {"{", "(", "[", "\""}
    \/ c \in AsciiAlphabetic
    \/ c \in AsciiDigit
    \/ c \in OPERATOR_SYMBOL
    \/ c = ";"

\* c closes Group g: g is not the Root and c pairs with the bracket that
\* opened g
ClosesGroup(g, c) ==
    g.group_type # "Root" /\ c = CloserOf(input[g.first])

\* C8: a Group that reads a character that is neither its own closing
\* bracket nor one that default dispatch starts an atom on stays the active
\* atom, unchanged; so {]} yields one Curly child of Root without children.
C8_IgnoredCharacters ==
    [][/\ (/\ state.type = "Group"
           /\ ~ClosesGroup(state, StepChar)
           /\ ~Starts(StepChar)) => state' = state
       /\ input' = <<"{", "]", "}">> =>
              state' = [FreshRoot EXCEPT !.children =
                          <<[type |-> "Group", parent |-> None,
                             children |-> <<>>, group_type |-> "Curly",
                             first |-> 1, last |-> 3]>>]
      ]_vars

C8_Witness ==
    /\ input = <<"{", "]", "}">>
    /\ IsRoot(state)
    /\ Len(state.children) = 1
    /\ state.children[1].group_type = "Curly"
    /\ state.children[1].children = <<>>

----------------------------------------------------------------------------
(* C9  No end-of-stream flush *)

SameAtom(x, y) == x.type = y.type /\ x.first = y.first

\* C9: the active atom and the Groups on its parent chain, the Root apart,
\* are in no child sequence (they still own their parent and carry no
\* attach position), whatever the input read so far; after +- the Root has
\* no child.
C9_NoFlush ==
    Running =>
        /\ \A i \in 1..Len(Chain(state)) :
              LET x == Chain(state)[i]
              IN  ~IsRoot(x) =>
                    /\ x.parent # None
                    /\ x.last = 0
                    /\ \A j \in 1..Len(Attached(state)) :
                          ~SameAtom(x, Attached(state)[j])
        /\ IsRoot(RootOf(state))
        /\ input = <<"+", "-">> =>
              state = [type |-> "Operator", parent |-> FreshRoot,
                       value |-> <<"+", "-">>, first |-> 1, last |-> 0]

\* an unclosed Group with a child attached inside it, absent from the Root
C9_Witness ==
    /\ Running
    /\ state.type = "Group"
    /\ state.group_type = "Curly"
    /\ Len(state.children) >= 1
    /\ IsRoot(state.parent)
    /\ state.parent.children = <<>>

----------------------------------------------------------------------------
(* C10  No fallible operation *)

\* C10: every read_char call returns a next active atom: no step panics
C10_NoFailure == state.type # "Panic"

\* no finalization ever unwraps an absent parent: a panic, where there is
\* one, is an arithmetic overflow of IntegerLiteral's accumulator
C10_UnwrapNeverFails ==
    state.type = "Panic" =>
        state.message \in {"attempt to multiply with overflow",
                           "attempt to add with overflow"}

----------------------------------------------------------------------------
(* C11  Second decimal point *)

\* the atoms of the tree that were attached while character n was processed
AttachedIn(atom, n) ==
    SelectSeq(Attached(atom), LAMBDA x : x.last = n)

AttachedAt(n) == AttachedIn(state, n)

\* the atoms of the tree that started on character n
StartedIn(atom, n) ==
    SelectSeq(Atoms(atom), LAMBDA x : x.first = n)

StartedAt(n) == StartedIn(state, n)

\* the last character read was a point that finalized NumericLiteral x
SecondPoint(x) ==
    /\ Len(input) >= 1
    /\ input[Len(input)] = "."
    /\ x.type = "NumericLiteral"
    /\ x.last = Len(input)

\* the original statement: the point that finalizes a NumericLiteral is
\* dropped, the parent Group is the active atom and no token starts on it
C11_Original ==
    Running =>
        \A k \in 1..Len(Attached(state)) :
            SecondPoint(Attached(state)[k]) =>
                /\ state.type = "Group"
                /\ state.children[Len(state.children)] = Attached(state)[k]
                /\ StartedAt(Len(input)) = <<>>

\* C11 (amended): an active NumericLiteral that reads a further point is
\* finalized and attached as the last child of its parent Group, and the
\* point is redispatched to that Group, where it is an operator symbol: a
\* new Operator with value . is the active atom after the step, owning the
\* Group, and it is the only atom started by that point.
C11_SecondPoint ==
    Running =>
        \A k \in 1..Len(Attached(state)) :
            LET x == Attached(state)[k]
            IN  SecondPoint(x) =>
                    /\ state.type = "Operator"
                    /\ state.value = <<".">>
                    /\ state.first = Len(input)
                    /\ state.last = 0
                    /\ state.parent.type = "Group"
                    /\ state.parent.children # <<>>
                    /\ state.parent.children[Len(state.parent.children)] = x
                    /\ StartedAt(Len(input)) = <<state>>
                    /\ AttachedAt(Len(input)) = <<x>>

C11_Witness ==
    /\ input = <<"1", ".", "5", ".">>
    /\ state.type = "Operator"
    /\ state.value = <<".">>
    /\ IsRoot(state.parent)
    /\ Len(state.parent.children) = 1
    /\ state.parent.children[1].type = "NumericLiteral"
    /\ state.parent.children[1].last = 4

----------------------------------------------------------------------------
(* C12  Integer overflow wraps *)

\* the accumulator of every IntegerLiteral, active or attached, is the
\* value of its digit run reduced modulo 2^64
WrappedAccumulators ==
    /\ state.type = "IntegerLiteral" =>
          state.value = IntegerPart(input, state.first, Len(input))
    /\ \A k \in 1..Len(Attached(state)) :
          LET x == Attached(state)[k]
          IN  x.type = "IntegerLiteral" =>
                  /\ Over(SubSeq(input, x.first, x.last - 1), AsciiDigit)
                  /\ x.value = IntegerPart(input, x.first, x.last - 1)

\* C12: every digit read by an IntegerLiteral updates the accumulator to
\* value * 10 + d reduced modulo 2^64, with no detection and no failure: no
\* step fails, and a digit run above 2^63 - 1 followed by a terminator
\* yields an attached IntegerLiteral holding the wrapped value.
C12_OverflowWraps ==
    /\ state.type # "Panic"
    /\ WrappedAccumulators
    /\ (Len(input) = MaxDigits /\ input[MaxDigits] = " ") =>
          /\ IsRoot(state)
          /\ Len(state.children) = 1
          /\ state.children[1].type = "IntegerLiteral"
          /\ IsNegative(state.children[1].value)

\* what the code does: the accumulator wraps in a build without overflow
\* checks, and in a build with them it holds the exact value until the
\* step that would exceed the i64 range, which panics
C12_WrapsOnlyWithoutChecks ==
    /\ Running => WrappedAccumulators
    /\ ~overflow_checks => Running
    /\ (~overflow_checks /\ Len(input) = MaxDigits /\ input[MaxDigits] = " ") =>
          /\ IsRoot(state)
          /\ Len(state.children) = 1
          /\ state.children[1].type = "IntegerLiteral"
          /\ state.children[1].last = MaxDigits
    /\ (overflow_checks /\ state.type = "IntegerLiteral") =>
          /\ ~IsNegative(state.value)
          /\ FitsI64(Trim(state.value))

----------------------------------------------------------------------------
(* C13  Finalize consumption discipline *)

\* atom x as a child record: its parent surrendered, attached at character n
Frozen(x, n) == [x EXCEPT !.parent = None, !.last = n]

\* Group g with one more child
WithChild(g, x) == [g EXCEPT !.children = Append(@, x)]

\* the active atom finalizes on c and consumes it
ConsumesOnFinalize(atom, c) ==
    \/ atom.type = "Operator" /\ c = ";"
    \/ atom.type = "StringLiteral" /\ ~atom.escaped /\ c = "\""
    \/ atom.type = "Group" /\ ClosesGroup(atom, c)

\* the active atom finalizes on c without consuming it
RedispatchesOnFinalize(atom, c) ==
    \/ atom.type = "Identifier" /\ c \notin AsciiAlphabetic \cup AsciiDigit
    \/ atom.type = "IntegerLiteral" /\ c \notin AsciiDigit \cup {"."}
    \/ atom.type = "NumericLiteral" /\ c \notin AsciiDigit
    \/ atom.type = "Operator" /\ c \notin OPERATOR_SYMBOL \cup {";"}

\* the same Group (same start) is in the tree with at least these children
KeepsChildren(tree, g) ==
    \E j \in 1..Len(tree) :
        /\ tree[j].type = "Group"
        /\ tree[j].first = g.first
        /\ IsPrefix(g.children, tree[j].children)

\* C13: an atom that finalizes on character c either (a) consumes c - an
\* Operator reading ; (c joins its value), a StringLiteral reading an
\* unescaped closing quote, a Group reading its own closing bracket - and
\* its parent, with the atom as its new last child, is the active atom,
\* not fed c; or (b) - an Identifier, IntegerLiteral, NumericLiteral or
\* Operator reading any other non-member character - is attached first and
\* c is then fed once to the parent Group's read_char, whose result is the
\* next active atom.  Exactly one of the two cases applies.
C13_FinalizeDiscipline ==
    [][LET c == StepChar
           n == Len(input')
           consumed == IF state.type = "Operator"
                       THEN [state EXCEPT !.value = Append(@, c)]
                       ELSE state
       IN  /\ ~(ConsumesOnFinalize(state, c) /\ RedispatchesOnFinalize(state, c))
           /\ ConsumesOnFinalize(state, c) =>
                 state' = WithChild(state.parent, Frozen(consumed, n))
           /\ RedispatchesOnFinalize(state, c) =>
                 LET attached == WithChild(state.parent, Frozen(state, n))
                 IN  /\ state' = GroupReadChar(attached, c, n)
                     /\ KeepsChildren(Atoms(state'), attached)
                     /\ \E k \in 1..Len(AttachedIn(state', n)) :
                           AttachedIn(state', n)[k] = Frozen(state, n)
           /\ (state'.type # "Panic" /\ state.type # "Group"
                /\ ~ConsumesOnFinalize(state, c)
                /\ ~RedispatchesOnFinalize(state, c)) =>
                 /\ AttachedIn(state', n) = <<>>
                 /\ state'.parent = state.parent
      ]_vars

\* Identifier a in a Curly: the closing bracket finalizes the Identifier,
\* which redispatches it, and closes the Curly, which consumes it
C13_Witness ==
    /\ input = <<"{", "a", "}">>
    /\ IsRoot(state)
    /\ Len(state.children) = 1
    /\ state.children[1].type = "Group"
    /\ state.children[1].last = 3
    /\ Len(state.children[1].children) = 1
    /\ state.children[1].children[1].type = "Identifier"
    /\ state.children[1].children[1].last = 3

----------------------------------------------------------------------------
(* C14  String contents are opaque *)

Text_opaque ==
    <<"\"", "{", "(", "[", "a", "1", "+", ";", " ", ")", "]", "}", "\"">>

----------------------------------------------------------------------------
(* C15  Operator never starts on a point read by an IntegerLiteral *)

\* Operator x started on a point
StartsOnPoint(x) ==
    x.type = "Operator" /\ x.first >= 1 /\ input[x.first] = "."

\* the attached atoms that the character at position p finalized
FinalizedBy(p) ==
    SelectSeq(Attached(state),
              LAMBDA y : y.last = p /\ y.type # "Group")

\* the original statement: the character read immediately before the point
\* an Operator starts on is not an ASCII digit
C15_Original ==
    Running =>
        \A k \in 1..Len(Atoms(state)) :
            LET x == Atoms(state)[k]
            IN  (StartsOnPoint(x) /\ x.first > 1) =>
                    input[x.first - 1] \notin AsciiDigit

\* C15 (amended): whenever a new Operator is created whose first character
\* is a point, that point was not read by an active IntegerLiteral (a point
\* read by an IntegerLiteral is always taken by it: it promotes the literal
\* and finalizes nothing); when the character read immediately before the
\* point was an ASCII digit, that digit was consumed by a NumericLiteral or
\* by an Identifier, which the point finalizes before it starts the
\* Operator.
C15_OperatorOnPoint ==
    Running =>
        /\ \A k \in 1..Len(Attached(state)) :
              LET y == Attached(state)[k]
              IN  y.type = "IntegerLiteral" => input[y.last] # "."
        /\ \A k \in 1..Len(Atoms(state)) :
              LET x == Atoms(state)[k]
              IN  (/\ StartsOnPoint(x)
                   /\ x.first > 1
                   /\ input[x.first - 1] \in AsciiDigit) =>
                      /\ Len(FinalizedBy(x.first)) = 1
                      /\ FinalizedBy(x.first)[1].type
                             \in {"NumericLiteral", "Identifier"}
                      /\ FinalizedBy(x.first)[1].type = "NumericLiteral" =>
                             PromotedFrom(FinalizedBy(x.first)[1], x.first - 1)
                      /\ FinalizedBy(x.first)[1].type = "Identifier" =>
                             FinalizedBy(x.first)[1].first
                                 + Len(FinalizedBy(x.first)[1].value) = x.first

\* a1. : the point follows the digit of Identifier a1 and starts an Operator
C15_Witness ==
    /\ input = <<"a", "1", ".">>
    /\ state.type = "Operator"
    /\ state.value = <<".">>
    /\ state.first = 3
    /\ IsRoot(state.parent)
    /\ Len(state.parent.children) = 1
    /\ state.parent.children[1].type = "Identifier"
    /\ state.parent.children[1].value = <<"a", "1">>

----------------------------------------------------------------------------
(* C16  Identifier grammar *)

\* value matches [A-Za-z][A-Za-z0-9]*
IdentifierGrammar(value) ==
    /\ Len(value) >= 1
    /\ value[1] \in AsciiAlphabetic
    /\ \A i \in 2..Len(value) : value[i] \in AsciiAlphabetic \cup AsciiDigit

Text_a_b2_ == <<"a", "_", "b", "2", "_", " ">>

\* C16: every Identifier, active or attached, has a non-empty value that
\* matches [A-Za-z][A-Za-z0-9]* and is the input text from its starting
\* character on; an active one has consumed every character up to the last
\* one read; an attached one was finalized by the character right after
\* its value, which is not ASCII alphanumeric and not part of the value.
C16_IdentifierGrammar ==
    Running =>
        /\ \A k \in 1..Len(Atoms(state)) :
              LET x == Atoms(state)[k]
                  end == x.first + Len(x.value) - 1
              IN  x.type = "Identifier" =>
                      /\ IdentifierGrammar(x.value)
                      /\ x.first >= 1
                      /\ x.value = SubSeq(input, x.first, end)
                      /\ IF x.last = 0
                         THEN x = state /\ end = Len(input)
                         ELSE /\ x.last = end + 1
                              /\ input[x.last] \notin AsciiAlphabetic \cup AsciiDigit
        /\ input = Text_a_b2_ =>
              state = [FreshRoot EXCEPT !.children =
                         <<AttachedIdentifier(<<"a">>, 1, 2),
                           AttachedOperator(<<"_">>, 2, 3),
                           AttachedIdentifier(<<"b", "2">>, 3, 5),
                           AttachedOperator(<<"_">>, 5, 6)>>]

C16_Witness ==
    /\ input = Text_a_b2_
    /\ IsRoot(state)
    /\ Len(state.children) = 4
    /\ state.children[3].type = "Identifier"
    /\ state.children[3].value = <<"b", "2">>
    /\ state.children[3].last = 5

----------------------------------------------------------------------------
(* C17  Parent-chain invariant *)

\* The open brackets of the first k characters of s, read off the text
\* alone: outside a string literal an opening bracket opens a Group, and a
\* closing bracket closes the innermost open Group when it pairs with the
\* bracket that opened it and is ignored otherwise; inside a string literal
\* nothing opens or closes.  stack holds the positions of the opening
\* brackets of the Groups still open, outermost first.
RECURSIVE Scan(_, _)
Scan(s, k) ==
    IF k = 0 THEN [in_string |-> FALSE, escaped |-> FALSE, stack |-> <<>>]
    ELSE LET p == Scan(s, k - 1)
             c == s[k]
             depth == Len(p.stack)
         IN  IF p.in_string
             THEN IF p.escaped THEN [p EXCEPT !.escaped = FALSE]
                  ELSE IF c = "\\" THEN [p EXCEPT !.escaped = TRUE]
                  ELSE IF c = "\"" THEN [p EXCEPT !.in_string = FALSE]
                  ELSE p
             ELSE IF c = "\"" THEN [p EXCEPT !.in_string = TRUE]
             ELSE IF c \in Openers THEN [p EXCEPT !.stack = Append(@, k)]
             ELSE IF depth > 0 /\ c \in Closers
                     /\ c = CloserOf(s[p.stack[depth]])
             THEN [p EXCEPT !.stack = SubSeq(@, 1, depth - 1)]
             ELSE p

\* the Groups on the active chain, the Root apart, outermost first
RECURSIVE OpenGroups(_)
OpenGroups(atom) ==
    IF atom.type \in {"None", "Panic"} THEN <<>>
    ELSE OpenGroups(atom.parent)
         \o (IF atom.type = "Group" /\ atom.group_type # "Root"
             THEN <<atom>> ELSE <<>>)

\* C17: following parent links from the active atom reaches the Root; the
\* Root is the only atom of the chain without a parent, every other atom
\* of the chain owns exactly one parent, which is a Group, and only the
\* active atom may be a leaf; and the non-Root Groups of the chain are, in
\* order, exactly the Groups created by the opening brackets read so far
\* that their matching closing bracket has not yet closed.
C17_ParentChain ==
    Running =>
        LET ch   == Chain(state)
            open == OpenGroups(state)
            want == Scan(input, Len(input)).stack
        IN  /\ Len(ch) >= 1
            /\ IsRoot(ch[Len(ch)])
            /\ \A i \in 1..(Len(ch) - 1) :
                  /\ ch[i].parent = ch[i + 1]
                  /\ ch[i].parent.type = "Group"
                  /\ ~(ch[i].type = "Group" /\ ch[i].group_type = "Root")
            /\ \A i \in 2..Len(ch) : ch[i].type = "Group"
            /\ Len(open) = Len(want)
            /\ \A i \in 1..Len(open) :
                  /\ open[i].first = want[i]
                  /\ open[i].group_type = KindOf(input[want[i]])
                  /\ open[i].last = 0

\* {()[ : the Curved is closed, the Curly and the Square are open
C17_Witness ==
    /\ input = <<"{", "(", ")", "[">>
    /\ state.type = "Group"
    /\ state.group_type = "Square"
    /\ state.parent.group_type = "Curly"
    /\ IsRoot(state.parent.parent)
    /\ Len(state.parent.children) = 1

----------------------------------------------------------------------------
(* C18  Attach exactly once, to the creator *)

\* the identities (type and start) of the atoms of a sequence
Identities(atoms) == {<<atoms[i].type, atoms[i].first>> : i \in 1..Len(atoms)}

\* the occupied places of a child sequence and below it: the start of the
\* holding Group, the index in its children and the child held there
RECURSIVE SlotsUnder(_, _, _)
SlotsUnder(holder, children, k) ==
    IF k > Len(children) THEN <<>>
    ELSE LET h == children[k]
         IN  <<[holder |-> holder, index |-> k, atom |-> h]>>
             \o (IF h.type = "Group"
                 THEN SlotsUnder(h.first, h.children, 1) ELSE <<>>)
             \o SlotsUnder(holder, children, k + 1)

RECURSIVE SlotsOfChain(_)
SlotsOfChain(chain) ==
    IF chain = <<>> THEN <<>>
    ELSE (IF Head(chain).type = "Group"
          THEN SlotsUnder(Head(chain).first, Head(chain).children, 1)
          ELSE <<>>) \o SlotsOfChain(Tail(chain))

\* the occupied places of every child sequence of the tree
Slots(atom) == SlotsOfChain(Chain(atom))

\* slot a is among the slots: same Group, same index, same child
HasSlot(slots, a) ==
    \E j \in 1..Len(slots) :
        /\ slots[j].holder = a.holder
        /\ slots[j].index = a.index
        /\ slots[j].atom = a.atom

\* the start of the Group that owned atom x while x was on the active
\* chain of the given atom
OwnerOnChain(atom, x) ==
    LET ch == Chain(atom)
        i  == CHOOSE i \in 1..Len(ch) : SameAtom(ch[i], x)
    IN  ch[i].parent.first

\* no atom occurs twice in the tree - an attached atom is in one place of
\* one child sequence and not on the active chain - and every attached
\* atom has surrendered its parent
AttachedOnce(tree, done) ==
    /\ Cardinality(Identities(tree)) = Len(tree)
    /\ \A k \in 1..Len(done) : done[k].parent = None /\ done[k].last >= 1

\* C18: every atom whose closing condition is met is attached exactly
\* once: it sits at exactly one place of exactly one Group's child
\* sequence; that Group is the one that owned it while it was active (for
\* an Operator created and closed by one ; the Group that read the ;);
\* and from then on it keeps its place, its value and its children and is
\* never on the active chain again.
C18_AttachOnce ==
    [][state'.type # "Panic" =>
          LET n   == Len(input')
              old == Slots(state)
              new == Slots(state')
              tree == Atoms(state')
              done == Attached(state')
          IN  /\ AttachedOnce(tree, done)
              /\ \A i \in 1..Len(old) : HasSlot(new, old[i])
              /\ \A j \in 1..Len(new) :
                    LET y == new[j].atom
                    IN  IF y.last # n THEN HasSlot(old, new[j])
                        ELSE IF OnChain(y, state)
                        THEN new[j].holder = OwnerOnChain(state, y)
                        ELSE /\ y.type = "Operator"
                             /\ y.first = n
                             /\ state'.type = "Group"
                             /\ new[j].holder = state'.first
                             /\ new[j].index = Len(state'.children)
      ]_vars

\* {a}; : Identifier a attached to the Curly, the Curly and the Operator ;
\* attached to the Root
C18_Witness ==
    /\ input = <<"{", "a", "}", ";">>
    /\ IsRoot(state)
    /\ Len(state.children) = 2
    /\ state.children[1].type = "Group"
    /\ Len(state.children[1].children) = 1
    /\ state.children[2].type = "Operator"
    /\ state.children[2].first = 4
    /\ state.children[2].last = 4

----------------------------------------------------------------------------
(* C19  A closing bracket that ends a leaf also closes the group *)

LeafTypes == {"Identifier", "IntegerLiteral", "NumericLiteral", "Operator"}

\* a closed Group as a child record
AttachedGroup(group_type, children, first, last) ==
    [type |-> "Group", parent |-> None, children |-> children,
     group_type |-> group_type, first |-> first, last |-> last]

\* C19: when an Identifier, IntegerLiteral, NumericLiteral or Operator is
\* active inside a non-Root Group G and reads G's own closing bracket, that
\* one step appends the leaf to G's children and then G, holding the leaf
\* as its last child, to the children of G's parent, which is the active
\* atom afterwards; {ab} leaves the Root active with one Curly child whose
\* only child is Identifier ab.
C19_LeafThenGroup ==
    [][/\ (/\ state.type \in LeafTypes
           /\ state.parent.group_type # "Root"
           /\ StepChar = CloserOf(input[state.parent.first])) =>
              LET n == Len(input')
                  G == state.parent
              IN  /\ state' = WithChild(G.parent,
                                 Frozen(WithChild(G, Frozen(state, n)), n))
                  /\ Len(AttachedIn(state', n)) = 2
       /\ input' = <<"{", "a", "b", "}">> =>
              state' = [FreshRoot EXCEPT !.children =
                          <<AttachedGroup("Curly",
                               <<AttachedIdentifier(<<"a", "b">>, 2, 4)>>,
                               1, 4)>>]
       /\ input' = <<"(", "+", ")">> =>
              state' = [FreshRoot EXCEPT !.children =
                          <<AttachedGroup("Curved",
                               <<AttachedOperator(<<"+">>, 2, 3)>>, 1, 3)>>]
      ]_vars

C19_Witness ==
    /\ input = <<"{", "a", "b", "}">>
    /\ IsRoot(state)
    /\ Len(state.children) = 1
    /\ state.children[1].group_type = "Curly"
    /\ Len(state.children[1].children) = 1
    /\ state.children[1].children[1].value = <<"a", "b">>

\* the same for each kind of leaf and each kind of Group
C19_EveryLeafKind ==
    /\ input = <<"[", "1", ".", "5", "]">> =>
          /\ IsRoot(state)
          /\ state.children[1].group_type = "Square"
          /\ state.children[1].children[1].type = "NumericLiteral"
    /\ input = <<"{", "(", "1", "2", ")", "}">> =>
          /\ IsRoot(state)
          /\ state.children[1].children[1].group_type = "Curved"
          /\ state.children[1].children[1].children[1].type = "IntegerLiteral"

----------------------------------------------------------------------------
(* C20  Every read_char terminates with bounded work *)

\* the atoms of the tree after a step that were not in the tree before it
Created(before, after) ==
    SelectSeq(Atoms(after),
              LAMBDA y : \A i \in 1..Len(Atoms(before)) :
                             ~SameAtom(Atoms(before)[i], y))

\* attached atom x was finalized by character c without consuming it, and
\* so redispatched c to its parent
Redispatched(x, c) ==
    \/ x.type \in {"Identifier", "IntegerLiteral", "NumericLiteral"}
    \/ x.type = "Operator" /\ c # ";"

\* a leaf that a Group creates on c keeps c: it is the active atom, holding
\* c alone, or it is the Operator ; attached complete as the last child of
\* the active Group
KeepsStartingChar(y, active, c, n) ==
    /\ c \in AsciiAlphabetic =>
          y = active /\ y.type = "Identifier" /\ y.value = <<c>> /\ y.last = 0
    /\ c \in AsciiDigit =>
          /\ y = active /\ y.type = "IntegerLiteral" /\ y.last = 0
          /\ y.value = I64(to_digit(c))
    /\ c \in OPERATOR_SYMBOL =>
          y = active /\ y.type = "Operator" /\ y.value = <<c>> /\ y.last = 0
    /\ c = ";" =>
          /\ y.type = "Operator" /\ y.value = <<c>> /\ y.last = n
          /\ active.type = "Group"
          /\ active.children[Len(active.children)] = y
    /\ c \in Openers =>
          y = active /\ y.type = "Group" /\ y.children = <<>> /\ y.last = 0
    /\ c = "\"" =>
          y = active /\ y.type = "StringLiteral" /\ y.value = <<>> /\ y.last = 0

\* one step does at most one redispatch, creates at most one atom and
\* attaches at most two
StepWork(before, after, c, n) ==
    LET made == Created(before, after)
        done == AttachedIn(after, n)
    IN  /\ Len(made) <= 1
        /\ Len(done) <= 2
        /\ Len(SelectSeq(done, LAMBDA x : Redispatched(x, c))) <= 1
        /\ \A k \in 1..Len(made) :
              \/ made[k].type = "NumericLiteral" /\ c = "." /\ made[k] = after
              \/ /\ made[k].first = n
                 /\ KeepsStartingChar(made[k], after, c, n)
        /\ StartedIn(after, n) = SelectSeq(made, LAMBDA y : y.first = n)

\* the two atoms attached by one step are a leaf and the Group around it
LeafAndGroup(done) ==
    \E i, j \in 1..2 :
        /\ done[i].type = "Group"
        /\ done[j].type \in LeafTypes
        /\ done[i].children # <<>>
        /\ done[i].children[Len(done[i].children)] = done[j]

\* the two atoms attached by one step are a leaf and the Operator ; that
\* the leaf's terminator started and completed
LeafAndTerminal(done, c, n) ==
    /\ c = ";"
    /\ \E i, j \in 1..2 :
          /\ done[i].type \in LeafTypes /\ done[i].first < n
          /\ done[j].type = "Operator" /\ done[j].first = n
          /\ done[j].value = <<";">>

\* the original statement: two atoms attached by one step are always one
\* leaf and one enclosing Group
C20_Original ==
    [][state'.type # "Panic" =>
          LET n    == Len(input')
              done == AttachedIn(state', n)
          IN  /\ StepWork(state, state', StepChar, n)
              /\ Len(done) = 2 => LeafAndGroup(done)
      ]_vars

\* C20 (amended): a leaf that a Group creates and feeds its starting
\* character keeps it (a letter stays in the Identifier, a digit in the
\* IntegerLiteral, an operator symbol in the Operator, and ; is consumed
\* by the Operator, which is attached at once), so processing one input
\* character performs at most one redispatch, creates at most one new atom
\* and attaches at most two atoms: one leaf and either its enclosing Group
\* or the Operator ; that the leaf's terminator started and completed.
C20_BoundedWork ==
    [][state'.type # "Panic" =>
          LET n    == Len(input')
              done == AttachedIn(state', n)
          IN  /\ StepWork(state, state', StepChar, n)
              /\ Len(done) = 2 =>
                    \/ LeafAndGroup(done)
                    \/ LeafAndTerminal(done, StepChar, n)
      ]_vars

\* a; : the ; finalizes Identifier a, is redispatched once and starts the
\* one new atom, the Operator, which consumes it and is attached at once
C20_Witness ==
    /\ input = <<"a", ";">>
    /\ IsRoot(state)
    /\ Len(state.children) = 2
    /\ state.children[1].type = "Identifier"
    /\ state.children[1].last = 2
    /\ state.children[2].type = "Operator"
    /\ state.children[2].first = 2
    /\ state.children[2].last = 2

=============================================================================
